---- MODULE Spec2Model ----
(***************************************************************************)
(* A model of the self-healing "render -> fail -> repair -> render" loop   *)
(* of the algorithm animation generator (main.py): main's pipeline stages, *)
(* run_with_auto_fix and the helpers it calls, over a small file system    *)
(* (the live code file, manim's media tree, the error_logs archive).       *)
(***************************************************************************)
EXTENDS Integers, Sequences, FiniteSets, TLC

(***************************************************************************)
(* Bounds of the model.                                                    *)
(***************************************************************************)
\* Retry budgets 0..MaxBudget are explored (the repository sets MAX_RETRIES = 3).
MaxBudget == 3
\* At most this many injected file-system faults (OSError, silent rmtree failure) per run.
MaxIOFaults == 1
\* Retry budgets 0..MaxRejectingBudget are explored with a manim that rejects -pql.
MaxRejectingBudget == 1
\* Names of up to this many characters are given to slugify_algorithm_name.
MaxNameLen == 4
\* Modification times 0..MaxMtime are given to the videos _find_latest_video looks at.
MaxMtime == 6

(***************************************************************************)
(* Values: text, None, and Python's tests on them.                         *)
(***************************************************************************)
\* Python's None.
NoneValue == [kind |-> "None", body |-> << >>]

\* A str, as its sequence of tokens (the empty sequence is "").
Text(body) == [kind |-> "str", body |-> body]

\* The marker main() and run_with_auto_fix look for ("class " + MANIM_CLASS_NAME).
MANIM_CLASS_MARKER == "class AlgorithmAnimation"

\* The signature _run_manim looks for in the primary invocation's stderr.
NO_SUCH_OPTION == "no such option"

\* Python truthiness of an Optional[str]: None and "" are falsy.
Truthy(v) == v.kind = "str" /\ v.body # << >>

\* `tok in v` for a str v.
Contains(v, tok) == \E i \in DOMAIN v.body : v.body[i] = tok

\* A mutation of OrEmpty: the text is dropped.
OrEmptyDropsText(v) == Text(<< >>)

\* `v or ""`.
OrEmpty(v) == IF Truthy(v) THEN v ELSE Text(<< >>)

\* A mutation of IsUsableCode: only the truthiness test, the marker test dropped.
IsUsableCodeNoMarkerTest(code) == Truthy(code)

\* A mutation of IsUsableCode: every reply accepted.
IsUsableCodeAcceptAll(code) == TRUE

\* `code and "class AlgorithmAnimation" in code` (main) and the negation of
\* `not fixed_code or "class AlgorithmAnimation" not in fixed_code` (run_with_auto_fix).
IsUsableCode(code) == Truthy(code) /\ Contains(code, MANIM_CLASS_MARKER)

\* What an LLM call (generate_manim_code, fix_manim_code) can hand back:
\* None, "", text without the marker, and well-formed candidates: a scene
\* that plays animations, a scene that plays none, and one that raises.
LLMReplies ==
    { NoneValue,
      Text(<< >>),
      Text(<<"from manim import *">>),
      Text(<<MANIM_CLASS_MARKER, "play">>),
      Text(<<MANIM_CLASS_MARKER, "still">>),
      Text(<<MANIM_CLASS_MARKER, "raise">>) }

\* What fix_manim_code(current_code, stderr) can return: text or None.
FixManimCodeReplies == LLMReplies

(***************************************************************************)
(* slugify_algorithm_name, over names as str values whose tokens are       *)
(* single characters.                                                      *)
(***************************************************************************)
\* What str.strip() strips and \s matches.
IsSpace(ch) == ch \in {" ", "\t", "\n"}

\* The ASCII letters, in order.
UpperCase ==
    << "A", "B", "C", "D", "E", "F", "G", "H", "I", "J", "K", "L", "M",
       "N", "O", "P", "Q", "R", "S", "T", "U", "V", "W", "X", "Y", "Z" >>
LowerCase ==
    << "a", "b", "c", "d", "e", "f", "g", "h", "i", "j", "k", "l", "m",
       "n", "o", "p", "q", "r", "s", "t", "u", "v", "w", "x", "y", "z" >>
Digits == {"0", "1", "2", "3", "4", "5", "6", "7", "8", "9"}

\* str.lower() on one character.
Lower(ch) ==
    IF \E i \in DOMAIN UpperCase : UpperCase[i] = ch
    THEN LowerCase[CHOOSE i \in DOMAIN UpperCase : UpperCase[i] = ch]
    ELSE ch

\* [a-z0-9_]
IsSlugChar(ch) ==
    \/ \E i \in DOMAIN LowerCase : LowerCase[i] = ch
    \/ ch \in Digits
    \/ ch = "_"

RECURSIVE LStrip(_)
LStrip(s) == IF s # << >> /\ IsSpace(Head(s)) THEN LStrip(Tail(s)) ELSE s

RECURSIVE RStrip(_)
RStrip(s) ==
    IF s # << >> /\ IsSpace(s[Len(s)]) THEN RStrip(SubSeq(s, 1, Len(s) - 1)) ELSE s

\* str.strip()
Strip(s) == LStrip(RStrip(s))

\* str.lower()
RECURSIVE LowerAll(_)
LowerAll(s) == IF s = << >> THEN << >> ELSE <<Lower(Head(s))>> \o LowerAll(Tail(s))

\* A mutation of SubSpaces: every whitespace character becomes a "_".
SubSpacesEach(s) == [i \in DOMAIN s |-> IF IsSpace(s[i]) THEN "_" ELSE s[i]]

\* re.sub(r"\s+", "_", s): every maximal run of whitespace becomes one "_".
RECURSIVE SubSpaces(_)
SubSpaces(s) ==
    IF s = << >> THEN << >>
    ELSE IF IsSpace(Head(s)) THEN <<"_">> \o SubSpaces(LStrip(s))
    ELSE <<Head(s)>> \o SubSpaces(Tail(s))

\* re.sub(r"[^a-z0-9_]+", "", s): every character outside the set is dropped.
StripUnsafe(s) == SelectSeq(s, IsSlugChar)

\* A mutation of DEFAULT_SLUG: a placeholder that is not itself a slug.
DEFAULT_SLUG_CAPITALISED == <<"A", "l", "g", "o", "r", "i", "t", "h", "m">>

\* The placeholder slug, "algorithm".
DEFAULT_SLUG == <<"a", "l", "g", "o", "r", "i", "t", "h", "m">>

\* The three assignments to `name` and the return, each applied to the value
\* the one before produced.
slugify_algorithm_name(name) ==
    LET Stage3(n3) == IF n3 = << >> THEN DEFAULT_SLUG ELSE n3
        Stage2(n2) == CHOOSE r \in { Stage3(n3) : n3 \in {StripUnsafe(n2)} } : TRUE
        Stage1(n1) == CHOOSE r \in { Stage2(n2) : n2 \in {SubSpaces(n1)} } : TRUE
    IN  CHOOSE r \in { Stage1(n1) : n1 \in {LowerAll(Strip(OrEmpty(name).body))} } : TRUE

\* A name that slugify_algorithm_name has not been applied to yet.
NotSlugged(name) == [input |-> name, once |-> << >>, twice |-> << >>, step |-> 0]

\* The algorithm names the operator may type in.
AlgorithmNames == { Text(<<"B", " ", "S">>), Text(<<"!", "?">>) }

(***************************************************************************)
(* manim and its media tree.                                               *)
(***************************************************************************)
\* The quality tiers of media/videos/generated_algo_scene/ the model tracks.
Tiers == {"480p15", "720p30"}

\* The directory manim renders into for a quality flag.
QualityTier(flag) == IF flag = "-pql" THEN "480p15" ELSE "720p30"

\* The flag _render_manim_core passes.
RENDER_FLAG == "-pql"

\* The flags of _run_manim's fallback command line.
ALT_FLAG == "-p -qm"

\* The tier clean_previous_outputs names in its three paths.
CLEANED_TIER == "720p30"

\* No file at a path.
NoFile == [exists |-> FALSE, producer |-> -1, mtime |-> 0]

\* AlgorithmAnimation.mp4 as written by the execution of attempt `producer`
\* (-1: by an earlier run of the program).
VideoFile(producer, mtime) == [exists |-> TRUE, producer |-> producer, mtime |-> mtime]

\* One `manim <flag> generated_algo_scene.py AlgorithmAnimation` process on
\* the file content `code`: exit status, stderr and whether a video is
\* written.  A manim that rejects the flag exits nonzero before it loads the
\* file; a scene that raises exits nonzero with its traceback; a scene that
\* plays no animation exits 0 and writes a still image, no video.
ManimProcess(flag, rejected, code) ==
    IF flag \in rejected
    THEN [ok |-> FALSE, stderr |-> Text(<<"Error:", NO_SUCH_OPTION, flag>>), video |-> FALSE]
    ELSE IF Contains(code, "play")
    THEN [ok |-> TRUE, stderr |-> Text(<< >>), video |-> TRUE]
    ELSE IF Contains(code, "still")
    THEN [ok |-> TRUE, stderr |-> Text(<< >>), video |-> FALSE]
    ELSE [ok |-> FALSE, stderr |-> Text(<<"Traceback">> \o code.body), video |-> FALSE]

\* A mutation of SubprocessRun: a missing binary is an ordinary failed execution.
SubprocessRunMissingIsFailure(installed, flag, rejected, code) ==
    IF installed
    THEN [raised |-> FALSE, procs |-> 1] @@ ManimProcess(flag, rejected, code)
    ELSE [raised |-> FALSE, procs |-> 1, ok |-> FALSE,
          stderr |-> Text(<<"manim: not found">>), video |-> FALSE]

\* subprocess.run(["manim", flag, ...], check=True): FileNotFoundError when the
\* binary is missing (no process is started), else the process's result.
SubprocessRun(installed, flag, rejected, code) ==
    IF installed
    THEN [raised |-> FALSE, procs |-> 1] @@ ManimProcess(flag, rejected, code)
    ELSE [raised |-> TRUE, procs |-> 0, ok |-> FALSE, stderr |-> Text(<< >>), video |-> FALSE]

\* "\n".join(part for part in (a, b) if part).
JoinNonEmpty(a, b) ==
    IF a.body = << >> THEN b
    ELSE IF b.body = << >> THEN a
    ELSE Text(a.body \o <<"\n">> \o b.body)

\* A mutation of FallbackTriggered: every primary failure triggers the fallback.
FallbackTriggeredOnAnyFailure(err) == TRUE

\* `if "no such option" in err`, for the stderr of a failed primary process.
FallbackTriggered(err) == Contains(err, NO_SUCH_OPTION)

\* What a call that has not returned has handed back.
NotReturned == [returned |-> FALSE, raised |-> FALSE, ok |-> FALSE, stderr |-> Text(<< >>)]

\* return ok, stderr.
Returned(ok, err) == [returned |-> TRUE, raised |-> FALSE, ok |-> ok, stderr |-> err]

\* An exception leaves the function.
Raised == [returned |-> FALSE, raised |-> TRUE, ok |-> FALSE, stderr |-> Text(<< >>)]

\* One process as _run_manim sees it.
Spawned(flag, p) == [flag |-> flag, ok |-> p.ok, stderr |-> p.stderr, video |-> p.video]

\* The name of the environment variable that carries the input data.
ENV_KEY == "ALGO_USER_INPUT_DATA"

\* env[key] = value on a dict.
SetItem(env, key, value) == (key :> value) @@ env

\* env = os.environ.copy(); env["ALGO_USER_INPUT_DATA"] = input_data: the
\* environment handed to subprocess.run(..., env=env).
SubprocessEnv(environ, data) == SetItem(environ, ENV_KEY, data)

\* A mutation of ParentEnvironAfter: env is os.environ itself, not a copy.
ParentEnvironAfterAliased(environ, data) == SetItem(environ, ENV_KEY, data)

\* os.environ after the harness built env: the assignment went to the copy.
ParentEnvironAfter(environ, data) == environ

\* An environment without the variable.
BaseEnviron == ("PATH" :> "/usr/bin")

\* The environments the program is started in: without the variable, and
\* with a value a shell exported earlier.
ParentEnvirons == { BaseEnviron, SetItem(BaseEnviron, ENV_KEY, "[1]") }

\* The data strings the operator types.
InputData == { "[8, 2, 6, 4]", "" }

\* _run_manim(quality_flag, input_data): the processes it starts, in order,
\* and what it returns.
RunManimCall(quality_flag, installed, rejected, code) ==
    LET p1 == SubprocessRun(installed, quality_flag, rejected, code)
        p2 == SubprocessRun(installed, ALT_FLAG, rejected, code)
    IN  IF p1.raised
        THEN [spawned |-> << >>, returned |-> Raised]
        ELSE IF p1.ok
        THEN [spawned |-> << Spawned(quality_flag, p1) >>,
              returned |-> Returned(TRUE, OrEmpty(p1.stderr))]
        ELSE IF FallbackTriggered(OrEmpty(p1.stderr))
        THEN [spawned |-> << Spawned(quality_flag, p1), Spawned(ALT_FLAG, p2) >>,
              returned |-> Returned(p2.ok, JoinNonEmpty(OrEmpty(p1.stderr), OrEmpty(p2.stderr)))]
        ELSE [spawned |-> << Spawned(quality_flag, p1) >>,
              returned |-> Returned(FALSE, OrEmpty(p1.stderr))]

\* The set of tiers holding an AlgorithmAnimation.mp4 (glob, recursive).
Matches(vids) == { t \in Tiers : vids[t].exists }

\* A mutation of LatestVideos: the oldest match instead of the newest.
LatestVideosOldest(vids) ==
    { t \in Matches(vids) : \A u \in Matches(vids) : vids[u].mtime >= vids[t].mtime }

\* max(matches, key=os.path.getmtime): the matches of maximal modification time.
LatestVideos(vids) ==
    { t \in Matches(vids) : \A u \in Matches(vids) : vids[u].mtime <= vids[t].mtime }

(***************************************************************************)
(* The error_logs archive.                                                 *)
(***************************************************************************)
\* str(n) for 0 <= n < 100.
DecimalDigit(d) ==
    CASE d = 0 -> "0" [] d = 1 -> "1" [] d = 2 -> "2" [] d = 3 -> "3" [] d = 4 -> "4"
      [] d = 5 -> "5" [] d = 6 -> "6" [] d = 7 -> "7" [] d = 8 -> "8" [] OTHER -> "9"

Decimal(n) ==
    IF n < 10 THEN <<DecimalDigit(n)>>
    ELSE <<DecimalDigit(n \div 10), DecimalDigit(n % 10)>>

\* datetime.now().strftime("%Y%m%dT%H%M%S") at second `t` of the minute the
\* run happens in: fifteen characters, the seconds zero-padded to two digits.
FormatTimestamp(t) ==
    <<"2", "0", "2", "6", "1", "1", "0", "4", "T", "1", "6", "0", "5">>
        \o <<DecimalDigit((t % 60) \div 10), DecimalDigit(t % 10)>>

\* A mutation of BaseName: the attempt index left out of the name.
BaseNameWithoutAttempt(slug, t, k) == slug \o <<"_">> \o FormatTimestamp(t)

\* f"{slug}_{ts}_attempt{attempt_index}"
BaseName(slug, t, k) ==
    slug \o <<"_">> \o FormatTimestamp(t)
         \o <<"_", "a", "t", "t", "e", "m", "p", "t">> \o Decimal(k)

\* os.path.join(ERROR_LOG_DIR, f"{base_name}.{ext}"), within error_logs/.
SnapshotPath(slug, t, k, ext) == BaseName(slug, t, k) \o <<".", ext>>

\* The archive file save_error_snapshot opens for one half of the pair.
SnapshotFile(slug, t, k, ext, content) ==
    [path |-> SnapshotPath(slug, t, k, ext), content |-> content]

\* open(path, "w") and write: the file of that name now holds `f.content`.
WriteFile(dir, f) == { g \in dir : g.path # f.path } \cup {f}

\* A mutation of SnapshotWrites: one try around both writes, so a failed
\* write of the code file skips the log file.
SnapshotWritesOneTry(dir, name, t, k, code, err, code_ok, log_ok) ==
    LET slug == slugify_algorithm_name(name)
        code_file == SnapshotFile(slug, t, k, "py", OrEmpty(code))
        log_file == SnapshotFile(slug, t, k, "log", OrEmpty(err))
    IN  IF ~code_ok THEN dir
        ELSE IF log_ok THEN WriteFile(WriteFile(dir, code_file), log_file)
        ELSE WriteFile(dir, code_file)

\* The two writes of save_error_snapshot(name, k, code, err) at second t, each
\* in its own try/except OSError: a write that fails leaves the archive as it is.
SnapshotWrites(dir, name, t, k, code, err, code_ok, log_ok) ==
    LET Written(slug) ==
            LET code_file == SnapshotFile(slug, t, k, "py", OrEmpty(code))
                log_file == SnapshotFile(slug, t, k, "log", OrEmpty(err))
                d1 == IF code_ok THEN WriteFile(dir, code_file) ELSE dir
            IN  IF log_ok THEN WriteFile(d1, log_file) ELSE d1
    IN  CHOOSE d \in { Written(slug) : slug \in {slugify_algorithm_name(name)} } : TRUE

\* The pair a run of the task "b_s" archived for its attempt 0 in second 1 of
\* the minute: an earlier run, or one going on beside this one.
OtherRunSnapshot ==
    { SnapshotFile(slugify_algorithm_name(Text(<<"b", "_", "s">>)), 1, 0, "py",
                   Text(<<MANIM_CLASS_MARKER, "other run">>)),
      SnapshotFile(slugify_algorithm_name(Text(<<"b", "_", "s">>)), 1, 0, "log",
                   Text(<<"Traceback", "other run">>)) }

(***************************************************************************)
(* The state.                                                              *)
(***************************************************************************)
VARIABLES
    pc,               \* where main / run_with_auto_fix stands
    outcome,          \* how the run ended ("Running" until then)
    MAX_RETRIES,      \* the retry budget N
    algorithm_name,   \* the operator's task name
    unsupported,      \* the flags the installed manim rejects
    manim_installed,  \* whether the manim binary is on PATH
    naming,           \* two save_error_snapshot calls into one archive (NamingSpec)
    harness,          \* one _run_manim call: its flag, processes, result (HarnessSpec)
    slugging,         \* one name slugified, and its slug slugified again (SlugSpec)
    input_data,       \* main: input_data, the operator's data string
    os_environ,       \* os.environ of the program's own process
    generated_code,   \* main: generated_code
    current_code,     \* run_with_auto_fix: current_code
    attempt,          \* run_with_auto_fix: attempt
    success,          \* run_with_auto_fix: success
    stderr,           \* run_with_auto_fix: stderr
    live_slot,        \* content of generated_algo_scene.py
    videos,           \* tier -> AlgorithmAnimation.mp4
    partials,         \* tier -> partial_movie_files/AlgorithmAnimation is non-empty
    texts,            \* media/texts is non-empty
    error_logs,       \* the files of error_logs/
    now,              \* the clock
    io_faults,        \* injected file-system faults so far
    reported_video,   \* the video path printed on success
    writes,           \* history: save_code calls
    purges,           \* history: clean_previous_outputs calls
    executions,       \* history: _render_manim_core calls
    snapshots,        \* history: save_error_snapshot calls
    repairs,          \* history: fix_manim_code calls
    trace             \* history: the order of all of the above

vars == << pc, outcome, MAX_RETRIES, algorithm_name, unsupported, manim_installed, naming,
          harness, slugging, input_data, os_environ,
           generated_code, current_code, attempt, success, stderr, live_slot, videos, partials,
           texts, error_logs, now, io_faults, reported_video, writes, purges,
           executions, snapshots, repairs, trace >>

\* What no step of main or run_with_auto_fix writes.
run_vars == << MAX_RETRIES, algorithm_name, unsupported, manim_installed, naming, harness,
              slugging,
              input_data >>
env_vars == << run_vars, os_environ >>
loop_vars == << generated_code, current_code, attempt, success, stderr >>
fs_vars == << live_slot, videos, partials, texts, error_logs >>
hist_vars == << writes, purges, executions, snapshots, repairs, trace >>

(***************************************************************************)
(* History records.                                                        *)
(***************************************************************************)
Event(op, k) == [op |-> op, attempt |-> k]

\* The number of events of kind `op` in history `h`.
Count(h, op) == Cardinality({ i \in DOMAIN h : h[i].op = op })

\* A run ends: the break / return taken, or the uncaught exception.
Finish(how) ==
    /\ pc' = "done"
    /\ outcome' = how

(***************************************************************************)
(* Init: the program starts; the environment is fixed.                     *)
(***************************************************************************)
Init ==
    /\ pc = "designer"
    /\ outcome = "Running"
    /\ MAX_RETRIES \in 0 .. MaxBudget
    /\ algorithm_name \in AlgorithmNames
    /\ unsupported \in SUBSET {RENDER_FLAG}
    /\ manim_installed \in BOOLEAN
    /\ manim_installed \/ unsupported = {}
    \* with a manim that rejects the flag every candidate fails alike: the
    \* budgets explored there are the small ones
    /\ unsupported = {} \/ MAX_RETRIES <= MaxRejectingBudget
    /\ naming = [calls |-> << >>, made |-> 0]
    /\ harness = [quality_flag |-> RENDER_FLAG, spawned |-> << >>, returned |-> NotReturned]
    /\ slugging = NotSlugged(NoneValue)
    /\ input_data \in InputData
    /\ os_environ \in ParentEnvirons
    /\ generated_code = NoneValue
    /\ current_code = NoneValue
    /\ attempt = 0
    /\ success = FALSE
    /\ stderr = Text(<< >>)
    /\ live_slot = NoneValue
    \* results left by earlier runs of the program, in any tier
    /\ videos \in [Tiers -> {NoFile, VideoFile(-1, 0)}]
    /\ partials = [t \in Tiers |-> videos[t].exists]
    /\ texts = (\E t \in Tiers : videos[t].exists)
    \* snapshots other runs left in the archive
    /\ error_logs \in {{}, OtherRunSnapshot}
    /\ now = 0
    /\ io_faults = 0
    /\ reported_video = "unset"
    /\ writes = << >>
    /\ purges = << >>
    /\ executions = << >>
    /\ snapshots = << >>
    /\ repairs = << >>
    /\ trace = << >>

(***************************************************************************)
(* main(): the pipeline stages before the loop.                            *)
(***************************************************************************)
\* generate_visual_metaphor returns a VisualMetaphor or None.
GenerateVisualMetaphor ==
    /\ pc = "designer"
    /\ \E metaphor_ok \in BOOLEAN :
         IF metaphor_ok
         THEN pc' = "build_prompt" /\ UNCHANGED outcome
         ELSE Finish("DesignerFailed")
    /\ trace' = Append(trace, Event("designer", 0))
    /\ UNCHANGED << env_vars, loop_vars, fs_vars, now, io_faults, reported_video,
                    writes, purges, executions, snapshots, repairs >>

\* A mutation of AfterBuildPrompt: a None prompt is passed on to the generator.
AfterBuildPromptIgnoresNone(prompt_ok) == "generate"

\* `if prompt is None: return`
AfterBuildPrompt(prompt_ok) == IF prompt_ok THEN "generate" ELSE "done"

\* build_prompt returns the prompt, or None when a template file is unreadable.
BuildPrompt ==
    /\ pc = "build_prompt"
    /\ \E files_readable \in BOOLEAN :
         /\ pc' = AfterBuildPrompt(files_readable)
         /\ IF files_readable
            THEN UNCHANGED outcome
            ELSE outcome' = "PromptFailed"
    /\ trace' = Append(trace, Event("build_prompt", 0))
    /\ UNCHANGED << env_vars, loop_vars, fs_vars, now, io_faults, reported_video,
                    writes, purges, executions, snapshots, repairs >>

\* generate_manim_code, then main's check of the generated code; a usable
\* candidate enters run_with_auto_fix (current_code = initial_code, attempt = 0).
GenerateManimCode ==
    /\ pc = "generate"
    /\ \E reply \in LLMReplies :
         /\ generated_code' = reply
         /\ trace' = Append(trace, Event("generate", 0))
         /\ IF IsUsableCode(reply)
            THEN /\ current_code' = reply
                 /\ attempt' = 0
                 /\ pc' = "save_code"
                 /\ UNCHANGED outcome
            ELSE /\ Finish("Invalid")
                 /\ UNCHANGED << current_code, attempt >>
    /\ UNCHANGED << env_vars, success, stderr, fs_vars, now, io_faults, reported_video,
                    writes, purges, executions, snapshots, repairs >>

(***************************************************************************)
(* run_with_auto_fix: one action per call the loop makes.                  *)
(***************************************************************************)
\* A mutation of AfterSaveCode: the purge is skipped.
AfterSaveCodeSkipsPurge(ok) == IF ok THEN "render" ELSE "done"

\* A mutation of AfterSaveCode: a failed write is swallowed and the loop goes on.
AfterSaveCodeSwallowsError(ok) == "clean"

\* What follows save_code(current_code) in the loop body: clean_previous_outputs()
\* when it returned, nothing when it raised.
AfterSaveCode(ok) == IF ok THEN "clean" ELSE "done"

\* save_code(current_code): open(GENERATED_CODE_PATH, "w") and write; an
\* OSError is not caught anywhere and ends the program, leaving the file as
\* it was or truncated.
SaveCode ==
    /\ pc = "save_code"
    /\ trace' = Append(trace, Event("write", attempt))
    /\ \/ /\ writes' = Append(writes, [attempt |-> attempt, code |-> current_code, ok |-> TRUE])
          /\ live_slot' = current_code
          /\ pc' = AfterSaveCode(TRUE)
          /\ UNCHANGED << outcome, io_faults >>
       \/ /\ io_faults < MaxIOFaults
          /\ io_faults' = io_faults + 1
          /\ writes' = Append(writes, [attempt |-> attempt, code |-> current_code, ok |-> FALSE])
          /\ pc' = AfterSaveCode(FALSE)
          /\ outcome' = "Crashed"
          /\ live_slot' \in {live_slot, Text(<< >>)}
    /\ UNCHANGED << env_vars, loop_vars, videos, partials, texts, error_logs, now,
                    reported_video, purges, executions, snapshots, repairs >>

\* A mutation of CleanedVideos: the final video of every tier is removed.
CleanedVideosAllTiers(vids) == [t \in Tiers |-> NoFile]

\* clean_previous_outputs: `if os.path.isfile(final_mp4): os.remove(final_mp4)`
\* with final_mp4 under the 720p30 tier.
CleanedVideos(vids) == [vids EXCEPT ![CLEANED_TIER] = NoFile]

\* clean_previous_outputs(): rmtree of the 720p30 partial directory and of
\* media/texts (both ignore_errors=True, so either may silently leave its
\* tree in place), and the removal of the 720p30 final video (an OSError
\* there is not caught).
CleanPreviousOutputs ==
    /\ pc = "clean"
    /\ purges' = Append(purges, [attempt |-> attempt])
    /\ trace' = Append(trace, Event("purge", attempt))
    /\ \/ /\ partials' = [partials EXCEPT ![CLEANED_TIER] = FALSE]
          /\ videos' = CleanedVideos(videos)
          /\ texts' = FALSE
          /\ pc' = "render"
          /\ UNCHANGED << outcome, io_faults >>
       \/ /\ io_faults < MaxIOFaults
          /\ io_faults' = io_faults + 1
          /\ \E kept \in (SUBSET {"partials", "texts"}) \ {{}} :
               /\ partials' = IF "partials" \in kept THEN partials
                              ELSE [partials EXCEPT ![CLEANED_TIER] = FALSE]
               /\ texts' = IF "texts" \in kept THEN texts ELSE FALSE
          /\ videos' = CleanedVideos(videos)
          /\ pc' = "render"
          /\ UNCHANGED outcome
       \/ /\ io_faults < MaxIOFaults
          /\ videos[CLEANED_TIER].exists
          /\ io_faults' = io_faults + 1
          /\ partials' = [partials EXCEPT ![CLEANED_TIER] = FALSE]
          /\ Finish("Crashed")
          /\ UNCHANGED << videos, texts >>
    /\ UNCHANGED << env_vars, loop_vars, live_slot, error_logs, now,
                    reported_video, writes, executions, snapshots, repairs >>

\* A mutation of AfterRender: after a failure the loop waits forever.
AfterRenderHangsOnFailure(ok) == IF ok THEN "success" ELSE "hang"

\* A mutation of AfterRender: a failure goes straight to the budget check.
AfterRenderSkipsSnapshot(ok) == IF ok THEN "success" ELSE "budget"

\* A mutation of AfterRender: the snapshot is taken before the success test.
AfterRenderSnapshotsFirst(ok) == "snapshot"

\* A mutation of AfterRender: the success branch is never taken.
AfterRenderNeverSucceeds(ok) == IF ok THEN "budget" ELSE "snapshot"

\* `if success: ... break`, else the failure path that starts with the snapshot.
AfterRender(ok) == IF ok THEN "success" ELSE "snapshot"

\* _render_manim_core(input_data): one `manim -pql` process on the live file.
\* A missing binary makes subprocess.run raise FileNotFoundError, which
\* nothing catches.  Exit 0 gives (True, stderr); CalledProcessError gives
\* (False, stderr).
RenderManimCore ==
    /\ pc = "render"
    /\ trace' = Append(trace, Event("exec", attempt))
    /\ LET p == SubprocessRun(manim_installed, RENDER_FLAG, unsupported, live_slot)
           tier == QualityTier(RENDER_FLAG)
           ran == p.procs > 0 /\ RENDER_FLAG \notin unsupported
       IN  /\ executions' = Append(executions,
                  [attempt |-> attempt, code |-> live_slot,
                   ok |-> p.ok, stderr |-> p.stderr, procs |-> p.procs,
                   env |-> SubprocessEnv(os_environ, input_data), parent |-> os_environ])
           /\ os_environ' = ParentEnvironAfter(os_environ, input_data)
           /\ IF p.raised
              THEN /\ Finish("Crashed")
                   /\ UNCHANGED << success, stderr, videos, partials, texts, now >>
              ELSE /\ now' = now + 1
                   /\ success' = p.ok
                   /\ stderr' = p.stderr
                   /\ videos' = IF p.video
                                THEN [videos EXCEPT ![tier] = VideoFile(attempt, now')]
                                ELSE videos
                   /\ partials' = IF ran THEN [partials EXCEPT ![tier] = TRUE] ELSE partials
                   /\ texts' = (texts \/ ran)
                   /\ pc' = AfterRender(p.ok)
                   /\ UNCHANGED outcome
    /\ UNCHANGED << run_vars, generated_code, current_code, attempt, live_slot,
                    error_logs, io_faults, reported_video, writes, purges, snapshots,
                    repairs >>

\* The success branch: _find_latest_video(), the report, the viewer (whose
\* failure is caught), break.
ReportSuccess ==
    /\ pc = "success"
    /\ IF Matches(videos) = {}
       THEN /\ reported_video' = "none"
            /\ trace' = Append(trace, Event("report", attempt))
       ELSE /\ \E t \in LatestVideos(videos) : reported_video' = t
            \* the viewer opens, or its launch raises and the exception is caught
            /\ \E opened \in BOOLEAN :
                 trace' = Append(trace, Event(IF opened THEN "report" ELSE "viewer_failed",
                                              attempt))
    /\ Finish("Succeeded")
    /\ UNCHANGED << env_vars, loop_vars, fs_vars, now, io_faults,
                    writes, purges, executions, snapshots, repairs >>

\* save_error_snapshot(algorithm_name, attempt, current_code, stderr or ""):
\* ensure_error_log_dir() (its OSError is not caught), then the two writes,
\* each in its own try/except OSError.
SaveErrorSnapshot ==
    /\ pc = "snapshot"
    /\ trace' = Append(trace, Event("snapshot", attempt))
    /\ \E code_ok \in BOOLEAN, log_ok \in BOOLEAN, dir_ok \in BOOLEAN :
         /\ (code_ok /\ log_ok /\ dir_ok) \/ io_faults < MaxIOFaults
         /\ ~dir_ok => (~code_ok /\ ~log_ok)
         /\ io_faults' = IF code_ok /\ log_ok /\ dir_ok THEN io_faults ELSE io_faults + 1
         /\ snapshots' = Append(snapshots,
                [attempt |-> attempt, code |-> current_code, stderr |-> OrEmpty(stderr),
                 code_ok |-> code_ok, log_ok |-> log_ok])
         /\ IF dir_ok
            THEN /\ error_logs' = SnapshotWrites(error_logs, algorithm_name, now, attempt,
                                                 current_code, stderr, code_ok, log_ok)
                 /\ pc' = "budget"
                 /\ UNCHANGED outcome
            ELSE /\ Finish("Crashed")
                 /\ UNCHANGED error_logs
    /\ UNCHANGED << env_vars, loop_vars, live_slot, videos, partials, texts, now,
                    reported_video, writes, purges, executions, repairs >>

\* A mutation of BudgetExhausted: off by one, a repair too many.
BudgetExhaustedOffByOne(k, n) == k > n

\* A mutation of BudgetExhausted: off by one, a repair too few.
BudgetExhaustedEarly(k, n) == k + 1 >= n

\* `if attempt >= MAX_RETRIES`
BudgetExhausted(k, n) == k >= n

\* The budget check after the snapshot: break when attempt >= MAX_RETRIES.
CheckBudget ==
    /\ pc = "budget"
    /\ IF BudgetExhausted(attempt, MAX_RETRIES)
       THEN Finish("ExhaustedRetries")
       ELSE pc' = "repair" /\ UNCHANGED outcome
    /\ UNCHANGED << env_vars, loop_vars, fs_vars, now, io_faults, reported_video,
                    hist_vars >>

\* A mutation of NextAttempt: the counter is not advanced.
NextAttemptStuck(k) == k

\* `attempt += 1`
NextAttempt(k) == k + 1

\* fix_manim_code(current_code, stderr or ""), then the check of its reply:
\* an unusable reply breaks; a usable one becomes current_code, attempt += 1.
FixManimCode ==
    /\ pc = "repair"
    /\ trace' = Append(trace, Event("repair", attempt))
    /\ \E fixed_code \in FixManimCodeReplies :
         /\ repairs' = Append(repairs,
                [attempt |-> attempt, code |-> current_code,
                 stderr |-> OrEmpty(stderr), reply |-> fixed_code])
         /\ IF ~IsUsableCode(fixed_code)
            THEN /\ Finish("RepairUnavailable")
                 /\ UNCHANGED << current_code, attempt >>
            ELSE /\ current_code' = fixed_code
                 /\ attempt' = NextAttempt(attempt)
                 /\ pc' = "save_code"
                 /\ UNCHANGED outcome
    /\ UNCHANGED << env_vars, generated_code, success, stderr, fs_vars, now, io_faults,
                    reported_video, writes, purges, executions, snapshots >>

Next ==
    \/ GenerateVisualMetaphor
    \/ BuildPrompt
    \/ GenerateManimCode
    \/ SaveCode
    \/ CleanPreviousOutputs
    \/ RenderManimCore
    \/ ReportSuccess
    \/ SaveErrorSnapshot
    \/ CheckBudget
    \/ FixManimCode

Spec == Init /\ [][Next]_vars

\* The starts of the program with an empty media tree, an empty archive, no
\* input data and the variable unset in the environment: what the loop's
\* control flow does not read.
FairInit ==
    /\ Init
    /\ algorithm_name = Text(<<"B", " ", "S">>)
    /\ videos = [t \in Tiers |-> NoFile]
    /\ error_logs = {}
    /\ input_data = ""
    /\ os_environ = BaseEnviron

\* The program is one sequential process: while a next statement exists, it
\* is executed.
FairSpec == FairInit /\ [][Next]_vars /\ WF_vars(Next)

(***************************************************************************)
(* Vocabulary of the properties.                                           *)
(***************************************************************************)
\* The run is over.
Done == pc = "done"

\* Execution i is a failed execution: manim ran and exited nonzero.
FailedExecution(i) == executions[i].procs > 0 /\ ~executions[i].ok

\* The snapshot calls made for attempt k.
SnapshotsOf(k) == { j \in DOMAIN snapshots : snapshots[j].attempt = k }

\* A reply the loop must not run: None, "", or text without the marker.
NoUsableCandidate(reply) ==
    \/ reply = NoneValue
    \/ reply = Text(<< >>)
    \/ \A i \in DOMAIN reply.body : reply.body[i] # "class AlgorithmAnimation"

(***************************************************************************)
(* C1..C10: the retry loop.                                                *)
(***************************************************************************)
\* C1: a run makes at most MAX_RETRIES + 1 calls of the execution harness,
\* and attempt <= MAX_RETRIES at the top of every loop iteration.
C1_BoundedExecutions ==
    /\ Len(executions) <= MAX_RETRIES + 1
    /\ pc = "save_code" => attempt <= MAX_RETRIES

C1_Witness ==
    /\ Done
    /\ MAX_RETRIES = 3
    /\ Len(executions) = MAX_RETRIES + 1
    /\ attempt = MAX_RETRIES

\* C2: every failed execution gets exactly one save_error_snapshot call for
\* its attempt, made before the repair call of that attempt and before the
\* run ends; never two, and never a repair or an end without it.
C2_SnapshotPerFailure ==
    \A i \in DOMAIN executions :
        FailedExecution(i) =>
            LET k == executions[i].attempt
            IN  /\ Cardinality(SnapshotsOf(k)) <= 1
                /\ (pc # "snapshot" \/ i < Len(executions))
                       => Cardinality(SnapshotsOf(k)) = 1
                /\ \A r \in DOMAIN trace :
                       trace[r] = Event("repair", k)
                           => \E q \in 1 .. (r - 1) : trace[q] = Event("snapshot", k)

C2_Witness ==
    /\ Done
    /\ Len(executions) = 3
    /\ \A i \in DOMAIN executions : FailedExecution(i)
    /\ Len(snapshots) = 3
    /\ Len(repairs) = 2

\* C3: the k-th snapshot call of a run (k = 0, 1, 2, ...) carries attempt
\* index k: the indices start at 0 and rise by one, with no gap.
C3_SnapshotIndices ==
    \A j \in DOMAIN snapshots : snapshots[j].attempt = j - 1

C3_Witness ==
    /\ Len(snapshots) = 4
    /\ snapshots[4].attempt = 3

\* C4: a repair call that returns no usable candidate (None, "", or text
\* without the marker) ends the run as RepairUnavailable at once: nothing is
\* written or executed after it, and after the first failure exactly one
\* snapshot call has been made.
C4_RepairUnavailable ==
    \A r \in DOMAIN repairs :
        NoUsableCandidate(repairs[r].reply) =>
            /\ r = Len(repairs)
            /\ Done
            /\ outcome = "RepairUnavailable"
            /\ Len(writes) = repairs[r].attempt + 1
            /\ Len(executions) = repairs[r].attempt + 1
            /\ trace[Len(trace)] = Event("repair", repairs[r].attempt)
            /\ repairs[r].attempt = 0 => Len(snapshots) = 1

C4_Witness ==
    /\ outcome = "RepairUnavailable"
    /\ MAX_RETRIES = 3
    /\ Len(repairs) = 1
    /\ repairs[1].reply = Text(<< >>)
    /\ Len(snapshots) = 1

\* C5: a run ends ExhaustedRetries exactly when all MAX_RETRIES + 1 permitted
\* executions failed (no uncaught I/O error having ended it first), and it has
\* then made MAX_RETRIES + 1 executions, MAX_RETRIES + 1 snapshot calls and
\* MAX_RETRIES repair calls, each repair reply usable.
C5_ExhaustedRetries ==
    /\ outcome = "ExhaustedRetries" =>
           /\ Len(executions) = MAX_RETRIES + 1
           /\ \A i \in DOMAIN executions : FailedExecution(i)
           /\ Len(snapshots) = MAX_RETRIES + 1
           /\ Len(repairs) = MAX_RETRIES
           /\ \A r \in DOMAIN repairs : ~NoUsableCandidate(repairs[r].reply)
    /\ ( /\ Done
         /\ outcome # "Crashed"
         /\ Len(executions) = MAX_RETRIES + 1
         /\ \A i \in DOMAIN executions : FailedExecution(i) )
           => outcome = "ExhaustedRetries"

C5_Witness ==
    /\ outcome = "ExhaustedRetries"
    /\ MAX_RETRIES = 2
    /\ Len(executions) = 3
    /\ Len(snapshots) = 3
    /\ Len(repairs) = 2

\* C6: a run whose executions fail on attempts 0..k-1 and succeed on attempt
\* k <= MAX_RETRIES ends Succeeded with exactly k snapshot calls, tagged
\* 0..k-1; a success on the last permitted attempt is Succeeded too.
C6_SucceededAfterFailures ==
    /\ outcome = "Succeeded" =>
           /\ attempt <= MAX_RETRIES
           /\ Len(executions) = attempt + 1
           /\ \A i \in 1 .. attempt : FailedExecution(i)
           /\ executions[attempt + 1].ok
           /\ Len(snapshots) = attempt
           /\ \A j \in DOMAIN snapshots : snapshots[j].attempt = j - 1
    /\ (Done /\ executions # << >> /\ executions[Len(executions)].ok)
           => outcome = "Succeeded"

C6_Witness ==
    /\ outcome = "Succeeded"
    /\ MAX_RETRIES = 3
    /\ attempt = 3
    /\ Len(snapshots) = 3
    /\ snapshots[3].attempt = 2

\* C7: a run whose first execution succeeds makes that one execution, no
\* snapshot call and no repair call, and ends Succeeded, whatever MAX_RETRIES.
C7_FirstTrySuccess ==
    (executions # << >> /\ executions[1].ok) =>
        /\ Len(executions) = 1
        /\ snapshots = << >>
        /\ repairs = << >>
        /\ pc \in {"success", "done"}
        /\ Done => outcome = "Succeeded"

C7_Witness ==
    /\ Done
    /\ MAX_RETRIES = 3
    /\ Len(executions) = 1
    /\ executions[1].ok
    /\ outcome = "Succeeded"

\* C8: when the generated code is None, "" or lacks the marker, the loop is
\* never entered: no write of the live file, no purge, no execution, no
\* snapshot, no repair, and the run ends Invalid.
C8_InvalidInitialArtifact ==
    (Count(trace, "generate") > 0 /\ NoUsableCandidate(generated_code)) =>
        /\ Done
        /\ outcome = "Invalid"
        /\ writes = << >>
        /\ purges = << >>
        /\ executions = << >>
        /\ snapshots = << >>
        /\ repairs = << >>
        /\ live_slot = NoneValue

C8_Witness ==
    /\ outcome = "Invalid"
    /\ generated_code = Text(<<"from manim import *">>)

\* The subprocesses spawned for attempt k.
ProcsOf(k) ==
    Cardinality({ i \in DOMAIN executions :
                    executions[i].attempt = k /\ executions[i].procs = 1 })
    + 2 * Cardinality({ i \in DOMAIN executions :
                    executions[i].attempt = k /\ executions[i].procs = 2 })

\* C9: when the primary invocation of attempt 0 fails with the "no such
\* option" signature and the fallback command line would succeed, the run
\* (no file-system fault occurring) ends Succeeded with no snapshot, no repair
\* and two subprocesses for attempt 0.
C9_FallbackTransparent ==
    ( /\ Done
      /\ io_faults = 0
      /\ executions # << >>
      /\ executions[1].procs > 0
      /\ Contains(ManimProcess(RENDER_FLAG, unsupported, executions[1].code).stderr,
                  NO_SUCH_OPTION)
      /\ ManimProcess(ALT_FLAG, unsupported, executions[1].code).ok )
        => /\ outcome = "Succeeded"
           /\ snapshots = << >>
           /\ repairs = << >>
           /\ ProcsOf(0) = 2

\* C10: the video a run reports after the successful execution of attempt k
\* was written by that execution, not by an earlier attempt or an earlier run.
C10_NoStaleResult ==
    (outcome = "Succeeded" /\ reported_video \in Tiers)
        => videos[reported_video].producer = attempt

(***************************************************************************)
(* C11..C20: ordering, faults, the archive, the harness.                   *)
(***************************************************************************)
\* Position in the trace of the last event `op` of attempt k before position e
\* (0 when there is none).
LastBefore(op, k, e) ==
    LET S == { i \in 1 .. (e - 1) : trace[i] = Event(op, k) }
    IN  IF S = {} THEN 0 ELSE CHOOSE i \in S : \A j \in S : j <= i

C12_SnapshotFailureSwallowed ==
    (trace # << >> /\ trace[Len(trace)].op = "snapshot")
        => (pc = "budget" /\ outcome = "Running")

\* C13 as claimed: the loop never overwrites or deletes a snapshot: every file
\* of the archive, with its content, is still there after every step.
C13_ArchiveOnlyGrows ==
    [][\A f \in error_logs : f \in error_logs']_vars

(***************************************************************************)
(* NamingSpec: two save_error_snapshot calls, of one run or of two, into   *)
(* one archive.                                                            *)
(***************************************************************************)
\* The task names of the calls: two that slugify alike, one that slugifies to
\* something else, one that slugifies to the placeholder.
NamingTasks ==
    { Text(<<"B", " ", "S">>), Text(<<"b", "_", "s">>), Text(<<"a", "1">>), Text(<<"!", "?">>) }

\* The seconds and the attempt indices of the calls.
NamingSeconds == {1, 11}
NamingAttempts == {1, 11}

\* One call: the task, the second it happens in, the attempt index, the code.
NamingCalls ==
    [name : NamingTasks, t : NamingSeconds, k : NamingAttempts,
     code : {Text(<<MANIM_CLASS_MARKER, "raise">>)}]

NamingInit ==
    /\ pc = "naming"
    /\ outcome = "Running"
    /\ MAX_RETRIES = 0
    /\ algorithm_name = Text(<< >>)
    /\ unsupported = {}
    /\ manim_installed = TRUE
    /\ naming \in [calls : [1 .. 2 -> NamingCalls], made : {0}]
    /\ harness = [quality_flag |-> RENDER_FLAG, spawned |-> << >>, returned |-> NotReturned]
    /\ slugging = NotSlugged(NoneValue)
    /\ input_data = ""
    /\ os_environ = BaseEnviron
    /\ generated_code = NoneValue
    /\ current_code = NoneValue
    /\ attempt = 0
    /\ success = FALSE
    /\ stderr = Text(<< >>)
    /\ live_slot = NoneValue
    /\ videos = [t \in Tiers |-> NoFile]
    /\ partials = [t \in Tiers |-> FALSE]
    /\ texts = FALSE
    /\ error_logs = {}
    /\ now = 0
    /\ io_faults = 0
    /\ reported_video = "unset"
    /\ writes = << >>
    /\ purges = << >>
    /\ executions = << >>
    /\ snapshots = << >>
    /\ repairs = << >>
    /\ trace = << >>

\* The next of the two calls: save_error_snapshot(name, k, code, stderr) at second t.
NamingSnapshotCall ==
    /\ pc = "naming"
    /\ naming.made < 2
    /\ LET c == naming.calls[naming.made + 1]
       IN  error_logs' = SnapshotWrites(error_logs, c.name, c.t, c.k, c.code,
                                        Text(<<"Traceback">>), TRUE, TRUE)
    /\ naming' = [naming EXCEPT !.made = @ + 1]
    /\ UNCHANGED << pc, outcome, MAX_RETRIES, algorithm_name, unsupported, manim_installed,
                    harness, slugging, input_data, os_environ, loop_vars, live_slot, videos, partials, texts, now, io_faults,
                    reported_video, hist_vars >>

NamingNext == NamingSnapshotCall

NamingSpec == NamingInit /\ [][NamingNext]_vars

\* C14 as claimed: two snapshot calls that differ in task identity, second or
\* attempt index never write the same archive file: after both, the archive
\* holds two pairs.
C14_UniquePerTaskIdentity ==
    ( /\ naming.made = 2
      /\ << naming.calls[1].name, naming.calls[1].t, naming.calls[1].k >>
           # << naming.calls[2].name, naming.calls[2].t, naming.calls[2].k >> )
        => Cardinality(error_logs) = 4

\* C15: when the manim binary is missing, the first execution ends the run as
\* a crash: no process ran, no snapshot, no repair call, no second execution,
\* and the attempt counter is still 0.
C15_MissingExecutorAborts ==
    (~manim_installed /\ executions # << >>)
        => /\ Done
           /\ outcome = "Crashed"
           /\ Len(executions) = 1
           /\ executions[1].procs = 0
           /\ attempt = 0
           /\ snapshots = << >>
           /\ repairs = << >>

C15_Witness ==
    /\ ~manim_installed
    /\ MAX_RETRIES = MaxBudget
    /\ Len(executions) = 1
    /\ outcome = "Crashed"

\* C16: a write of the live slot that fails ends the run as a crash, with no
\* execution, snapshot or repair call for that attempt; and every execution
\* ran the code that a completed write of the same attempt put in the slot.
C16_PublishFailureFatal ==
    /\ \A i \in 1 .. Len(writes) :
         ~writes[i].ok =>
             /\ Done
             /\ outcome = "Crashed"
             /\ i = Len(writes)
             /\ \A e \in 1 .. Len(executions) : executions[e].attempt # writes[i].attempt
             /\ \A n \in 1 .. Len(snapshots) : snapshots[n].attempt # writes[i].attempt
             /\ \A r \in 1 .. Len(repairs) : repairs[r].attempt # writes[i].attempt
    /\ \A e \in 1 .. Len(executions) :
         \E i \in 1 .. Len(writes) :
             /\ writes[i].ok
             /\ writes[i].attempt = executions[e].attempt
             /\ writes[i].code = executions[e].code

C16_Witness ==
    /\ Len(writes) = 2
    /\ ~writes[2].ok
    /\ Len(executions) = 1
    /\ Len(repairs) = 1
    /\ Done

\* The outcomes of a run that reached the loop or its entry check.
RunOutcomes == {"Succeeded", "ExhaustedRetries", "RepairUnavailable", "Invalid", "Crashed"}

\* What run_with_auto_fix and main hand back: neither has a return statement
\* with a value, so every outcome that is not an uncaught exception returns None.
ReturnValue(o) == IF o = "Crashed" THEN "raised" ELSE "None"

\* The exit status of `python main.py`: main() is called without sys.exit, so
\* the status is 0 unless an uncaught exception ended the interpreter.
ExitStatus(o) == IF o = "Crashed" THEN 1 ELSE 0

\* What a caller can observe of the outcome.
Status(o) == [returned |-> ReturnValue(o), exit |-> ExitStatus(o)]

\* C17 as claimed: the status a finished run reports is the status of no
\* other outcome.
C17_DistinctStatus ==
    (Done /\ outcome \in RunOutcomes)
        => \A o \in RunOutcomes \ {outcome} : Status(o) # Status(outcome)

\* C18: when generate_manim_code returns None the run is over with no write
\* of the live slot, no purge, no execution, no snapshot and no repair call.
C18_GeneratorAbsent ==
    (Count(trace, "generate") > 0 /\ generated_code = NoneValue)
        => /\ Done
           /\ outcome = "Invalid"
           /\ writes = << >>
           /\ purges = << >>
           /\ executions = << >>
           /\ snapshots = << >>
           /\ repairs = << >>
           /\ live_slot = NoneValue
           /\ error_logs \in {{}, OtherRunSnapshot}

C18_Witness ==
    /\ Count(trace, "generate") = 1
    /\ generated_code = NoneValue
    /\ Done
    /\ outcome = "Invalid"
    /\ MAX_RETRIES = MaxBudget

(***************************************************************************)
(* HarnessSpec: one call of _run_manim on a file in the live slot.         *)
(***************************************************************************)
\* The quality flags a caller passes.
QualityFlags == {"-pql", "-pqm"}

\* The files _run_manim is run on: a scene that plays, one that plays
\* nothing, one that raises, one that raises with the words of the
\* unsupported-option message in its traceback.
HarnessCodes ==
    { Text(<<MANIM_CLASS_MARKER, "play">>),
      Text(<<MANIM_CLASS_MARKER, "still">>),
      Text(<<MANIM_CLASS_MARKER, "raise">>),
      Text(<<MANIM_CLASS_MARKER, "raise", NO_SUCH_OPTION>>) }

HarnessInit ==
    /\ pc = "harness"
    /\ outcome = "Running"
    /\ MAX_RETRIES = 0
    /\ algorithm_name = Text(<< >>)
    /\ unsupported \in SUBSET (QualityFlags \cup {ALT_FLAG})
    /\ manim_installed \in BOOLEAN
    /\ naming = [calls |-> << >>, made |-> 0]
    /\ harness \in [quality_flag : QualityFlags, spawned : {<< >>}, returned : {NotReturned}]
    /\ slugging = NotSlugged(NoneValue)
    /\ input_data \in InputData
    /\ os_environ \in ParentEnvirons
    /\ generated_code = NoneValue
    /\ current_code = NoneValue
    /\ attempt = 0
    /\ success = FALSE
    /\ stderr = Text(<< >>)
    /\ live_slot \in HarnessCodes
    /\ videos = [t \in Tiers |-> NoFile]
    /\ partials = [t \in Tiers |-> FALSE]
    /\ texts = FALSE
    /\ error_logs = {}
    /\ now = 0
    /\ io_faults = 0
    /\ reported_video = "unset"
    /\ writes = << >>
    /\ purges = << >>
    /\ executions = << >>
    /\ snapshots = << >>
    /\ repairs = << >>
    /\ trace = << >>

\* The media tree after the processes of `spawned`, the first of which ends
\* at second t + 1.
VideosAfter(vids, spawned, t) ==
    [tier \in Tiers |->
        IF \E i \in DOMAIN spawned : spawned[i].video /\ QualityTier(spawned[i].flag) = tier
        THEN VideoFile(0, t + (CHOOSE i \in DOMAIN spawned :
                                   /\ spawned[i].video
                                   /\ QualityTier(spawned[i].flag) = tier
                                   /\ \A j \in DOMAIN spawned :
                                        (spawned[j].video /\ QualityTier(spawned[j].flag) = tier)
                                            => j <= i))
        ELSE vids[tier]]

\* _run_manim(quality_flag, input_data).
RunManim ==
    /\ pc = "harness"
    /\ LET r == RunManimCall(harness.quality_flag, manim_installed, unsupported, live_slot)
       IN  /\ harness' = [harness EXCEPT !.spawned = r.spawned, !.returned = r.returned]
           /\ videos' = VideosAfter(videos, r.spawned, now)
           /\ now' = now + Len(r.spawned)
           /\ partials' = [tier \in Tiers |->
                              \/ partials[tier]
                              \/ \E i \in DOMAIN r.spawned :
                                    /\ r.spawned[i].flag \notin unsupported
                                    /\ QualityTier(r.spawned[i].flag) = tier]
           /\ texts' = (texts \/ \E i \in DOMAIN r.spawned : r.spawned[i].flag \notin unsupported)
           /\ IF r.returned.raised THEN Finish("Crashed") ELSE Finish("Returned")
    /\ os_environ' = ParentEnvironAfter(os_environ, input_data)
    /\ UNCHANGED << MAX_RETRIES, algorithm_name, unsupported, manim_installed, naming,
                    slugging, input_data, loop_vars, live_slot, error_logs, io_faults, reported_video, hist_vars >>

HarnessNext == RunManim

HarnessSpec == HarnessInit /\ [][HarnessNext]_vars

\* C19: _run_manim starts the fallback process exactly when the primary
\* process failed with "no such option" in its stderr; otherwise it starts one
\* process and returns that process's result; with the fallback it starts two,
\* the second with the fallback flags, and returns success exactly when the
\* fallback exited 0; it never starts a third.
C19_FallbackIffSignature ==
    harness.returned.returned =>
        LET sp == harness.spawned
            ret == harness.returned
        IN  /\ Len(sp) \in {1, 2}
            /\ sp[1].flag = harness.quality_flag
            /\ Len(sp) = 2 <=> (~sp[1].ok /\ Contains(sp[1].stderr, NO_SUCH_OPTION))
            /\ Len(sp) = 1 => (ret.ok = sp[1].ok /\ ret.stderr = sp[1].stderr)
            /\ Len(sp) = 2 => (sp[2].flag = ALT_FLAG /\ ret.ok = sp[2].ok)

C19_Witness ==
    /\ harness.returned.returned
    /\ Len(harness.spawned) = 2
    /\ ~harness.returned.ok
    /\ harness.quality_flag \notin unsupported
    /\ Contains(harness.returned.stderr, "\n")

\* The candidate of attempt k: the generator's code, or the k-th repair's reply.
CandidateOf(k) == IF k = 0 THEN generated_code ELSE repairs[k].reply

\* C20: every write of the live slot writes the attempt's candidate code and
\* nothing else; every execution's process gets the parent's environment with
\* ALGO_USER_INPUT_DATA set to the input data; and os.environ of the program
\* is what it was before each execution.
C20_InputDataOnlyInEnv ==
    /\ \A i \in DOMAIN writes : writes[i].code = CandidateOf(writes[i].attempt)
    /\ pc \in {"clean", "render"} => live_slot = CandidateOf(attempt)
    /\ \A e \in DOMAIN executions :
         /\ executions[e].code = CandidateOf(executions[e].attempt)
         /\ DOMAIN executions[e].env = DOMAIN os_environ \cup {ENV_KEY}
         /\ executions[e].env[ENV_KEY] = input_data
         /\ \A k \in DOMAIN os_environ \ {ENV_KEY} : executions[e].env[k] = os_environ[k]
         /\ executions[e].parent = os_environ

C20_Witness ==
    /\ Len(executions) = 3
    /\ ENV_KEY \in DOMAIN os_environ
    /\ os_environ[ENV_KEY] # input_data
    /\ input_data # ""
    /\ executions[3].env[ENV_KEY] = input_data

(***************************************************************************)
(* C21..C30.                                                               *)
(***************************************************************************)
(***************************************************************************)
(* SlugSpec: slugify_algorithm_name applied to a name, then to its result. *)
(***************************************************************************)
\* The characters of the names: a capital, a small letter, a digit, the
\* separator, two kinds of whitespace, a character outside the safe set.
SlugAlphabet == {"B", "a", "1", "_", " ", "\t", "!"}

\* None, and every string over the alphabet of at most MaxNameLen characters.
SlugInputs ==
    {NoneValue} \cup { Text(b) : b \in UNION { [1 .. n -> SlugAlphabet] : n \in 0 .. MaxNameLen } }

SlugInit ==
    /\ pc = "slug"
    /\ outcome = "Running"
    /\ MAX_RETRIES = 0
    /\ algorithm_name = Text(<< >>)
    /\ unsupported = {}
    /\ manim_installed = TRUE
    /\ naming = [calls |-> << >>, made |-> 0]
    /\ harness = [quality_flag |-> RENDER_FLAG, spawned |-> << >>, returned |-> NotReturned]
    /\ slugging \in { NotSlugged(name) : name \in SlugInputs }
    /\ input_data = ""
    /\ os_environ = BaseEnviron
    /\ generated_code = NoneValue
    /\ current_code = NoneValue
    /\ attempt = 0
    /\ success = FALSE
    /\ stderr = Text(<< >>)
    /\ live_slot = NoneValue
    /\ videos = [t \in Tiers |-> NoFile]
    /\ partials = [t \in Tiers |-> FALSE]
    /\ texts = FALSE
    /\ error_logs = {}
    /\ now = 0
    /\ io_faults = 0
    /\ reported_video = "unset"
    /\ writes = << >>
    /\ purges = << >>
    /\ executions = << >>
    /\ snapshots = << >>
    /\ repairs = << >>
    /\ trace = << >>

\* slug = slugify_algorithm_name(name)
SlugifyOnce ==
    /\ pc = "slug"
    /\ slugging.step = 0
    /\ slugging' = [slugging EXCEPT !.once = slugify_algorithm_name(slugging.input),
                                    !.step = 1]
    /\ UNCHANGED << pc, outcome, MAX_RETRIES, algorithm_name, unsupported, manim_installed,
                    naming, harness, input_data, os_environ, loop_vars, fs_vars, now,
                    io_faults, reported_video, hist_vars >>

\* slugify_algorithm_name(slug)
SlugifyAgain ==
    /\ pc = "slug"
    /\ slugging.step = 1
    /\ slugging' = [slugging EXCEPT !.twice = slugify_algorithm_name(Text(slugging.once)),
                                    !.step = 2]
    /\ UNCHANGED << pc, outcome, MAX_RETRIES, algorithm_name, unsupported, manim_installed,
                    naming, harness, input_data, os_environ, loop_vars, fs_vars, now,
                    io_faults, reported_video, hist_vars >>

SlugNext == SlugifyOnce \/ SlugifyAgain

SlugSpec == SlugInit /\ [][SlugNext]_vars

\* The reference of C21, position by position: between the first and the
\* last non-whitespace character, lowercased, the first character of each
\* whitespace run gives "_", the rest of the run nothing, a safe character
\* itself, any other character nothing; "algorithm" if nothing is left.
RefSlug(name) ==
    LET s == IF name = NoneValue THEN << >> ELSE name.body
        inked == { i \in DOMAIN s : ~IsSpace(s[i]) }
        first == CHOOSE i \in inked : \A j \in inked : i <= j
        last == CHOOSE i \in inked : \A j \in inked : j <= i
        t == IF inked = {} THEN << >> ELSE [i \in 1 .. (last - first + 1) |-> Lower(s[first + i - 1])]
        piece(i) == IF IsSpace(t[i])
                    THEN IF i > 1 /\ IsSpace(t[i - 1]) THEN "" ELSE "_"
                    ELSE IF IsSlugChar(t[i]) THEN t[i] ELSE ""
        kept(c) == c # ""
        r == SelectSeq([i \in DOMAIN t |-> piece(i)], kept)
    IN  IF r = << >> THEN <<"a", "l", "g", "o", "r", "i", "t", "h", "m">> ELSE r

\* C21: slugify_algorithm_name(name) is the reference slug of the name, is
\* never empty, and holds only characters of [a-z0-9_].
C21_SlugifyReference ==
    slugging.step >= 1 =>
        /\ slugging.once = RefSlug(slugging.input)
        /\ slugging.once # << >>
        /\ \A i \in DOMAIN slugging.once : IsSlugChar(slugging.once[i])

C21_Witness ==
    /\ slugging.step = 1
    /\ slugging.input = Text(<<"B", " ", "\t", "1">>)
    /\ slugging.once = <<"b", "_", "1">>

\* C29: slugifying a slug gives the same slug.
C29_SlugifyIdempotent ==
    slugging.step = 2 => slugging.twice = slugging.once

C29_Witness ==
    /\ slugging.step = 2
    /\ slugging.input = Text(<<"!">>)
    /\ slugging.once = DEFAULT_SLUG
    /\ slugging.twice = DEFAULT_SLUG

(***************************************************************************)
(* C22..C28, C30: the loop again.                                          *)
(***************************************************************************)
\* The position in the trace of the one event `op` of attempt k (0: none).
PositionOf(op, k) ==
    IF \E i \in DOMAIN trace : trace[i] = Event(op, k)
    THEN CHOOSE i \in DOMAIN trace : trace[i] = Event(op, k)
    ELSE 0

\* Every repair call is for an attempt below the budget whose execution
\* failed and whose snapshot call was made in between.
RepairsFollowSnapshots ==
    \A r \in DOMAIN repairs :
        \A k \in {repairs[r].attempt} :
            /\ k < MAX_RETRIES
            /\ \E e \in DOMAIN executions : executions[e].attempt = k /\ FailedExecution(e)
            /\ \A pe \in {PositionOf("exec", k)}, ps \in {PositionOf("snapshot", k)} :
                   /\ 0 < pe
                   /\ pe < ps
                   /\ ps < PositionOf("repair", k)

\* A failure at attempt = MAX_RETRIES is snapshotted and ends the run as
\* ExhaustedRetries with no repair call for it.
LastFailureNotRepaired ==
    (PositionOf("exec", MAX_RETRIES) > 0 /\ Done /\ outcome # "Crashed" /\ ~success)
        => /\ outcome = "ExhaustedRetries"
           /\ PositionOf("snapshot", MAX_RETRIES) > 0
           /\ PositionOf("repair", MAX_RETRIES) = 0

\* C22 as claimed: with the above, at most MAX_RETRIES repair calls, and
\* always at least one repair call fewer than executions.
C22_RepairsBelowExecutions ==
    /\ RepairsFollowSnapshots
    /\ LastFailureNotRepaired
    /\ Len(repairs) <= MAX_RETRIES
    /\ Len(repairs) <= Len(executions) - 1

\* C22, amended: with the above, at most MAX_RETRIES repair calls, and never
\* more repair calls than executions.
C22_RepairsBounded ==
    /\ RepairsFollowSnapshots
    /\ LastFailureNotRepaired
    /\ Len(repairs) <= MAX_RETRIES
    /\ Len(repairs) <= Len(executions)

C22_Witness ==
    /\ Done
    /\ outcome = "ExhaustedRetries"
    /\ MAX_RETRIES = MaxBudget
    /\ Len(repairs) = MaxBudget
    /\ trace[Len(trace)] = Event("snapshot", MaxBudget)

\* The three end states of a run that entered the loop.
LoopEndStates == {"Succeeded", "ExhaustedRetries", "RepairUnavailable"}

\* C23: a run that entered the loop ends, in one of the three end states or,
\* when an external call raised instead of returning (a file operation's
\* OSError, the missing manim binary), in a crash; a crash has no other
\* cause; and no step is ever taken from an end state.
C23_Terminates ==
    /\ (pc = "save_code") ~> (Done /\ outcome \in LoopEndStates \cup {"Crashed"})
    /\ [](outcome = "Crashed" => (io_faults > 0 \/ ~manim_installed))
    /\ [][~Done]_vars

C23_Witness ==
    /\ Done
    /\ outcome = "Succeeded"
    /\ MAX_RETRIES = MaxBudget
    /\ Len(executions) = MaxBudget + 1
    /\ io_faults = MaxIOFaults

\* C24 as claimed: when an execution is about to start, the purge of this
\* iteration has been made and has completed: no partial byproduct of an
\* earlier execution and no text cache is left.
C24_PurgeCompleted ==
    (pc = "render" /\ io_faults = 0)
        => /\ PositionOf("purge", attempt) > 0
           /\ \A t \in Tiers : ~partials[t]
           /\ ~texts

\* The index of the execution of attempt k (0: none).
ExecutionOf(k) ==
    IF \E e \in DOMAIN executions : executions[e].attempt = k
    THEN CHOOSE e \in DOMAIN executions : executions[e].attempt = k
    ELSE 0

\* C25: the snapshot call of attempt k carries the code that was written to
\* the live slot and executed as attempt k and the stderr of that execution,
\* and without a file-system fault these are what its two files hold; the
\* repair call of attempt k gets the same code and stderr; and the code
\* written as attempt k + 1 is that repair call's reply.
C25_SameArtifactThroughout ==
    /\ \A j \in DOMAIN snapshots :
         LET k == snapshots[j].attempt
             e == ExecutionOf(k)
         IN  /\ e > 0
             /\ FailedExecution(e)
             /\ writes[k + 1].attempt = k /\ writes[k + 1].ok
             /\ snapshots[j].code = writes[k + 1].code
             /\ snapshots[j].code = executions[e].code
             /\ snapshots[j].stderr = executions[e].stderr
    /\ \A r \in DOMAIN repairs :
         LET k == repairs[r].attempt
         IN  /\ repairs[r].code = snapshots[k + 1].code
             /\ repairs[r].stderr = snapshots[k + 1].stderr
             /\ Len(writes) > k + 1 =>
                    (writes[k + 2].attempt = k + 1 /\ writes[k + 2].code = repairs[r].reply)
    /\ (pc = "budget" /\ io_faults = 0) =>
         LET e == executions[Len(executions)]
             slug == slugify_algorithm_name(algorithm_name)
         IN  /\ SnapshotFile(slug, now, attempt, "py", e.code) \in error_logs
             /\ SnapshotFile(slug, now, attempt, "log", e.stderr) \in error_logs

C25_Witness ==
    /\ pc = "budget"
    /\ io_faults = 0
    /\ Len(snapshots) = 2
    /\ snapshots[1].code # snapshots[2].code
    /\ Len(repairs) = 1
    /\ repairs[1].reply = snapshots[2].code

(***************************************************************************)
(* DiscoverSpec: the success branch with _find_latest_video on any media   *)
(* tree.                                                                   *)
(***************************************************************************)
\* The media trees: in each tier no video, or one of any modification time.
MediaTrees == [Tiers -> {NoFile} \cup { VideoFile(-1, m) : m \in 0 .. MaxMtime }]

DiscoverInit ==
    /\ pc = "success"
    /\ outcome = "Running"
    /\ MAX_RETRIES = 0
    /\ algorithm_name = Text(<< >>)
    /\ unsupported = {}
    /\ manim_installed = TRUE
    /\ naming = [calls |-> << >>, made |-> 0]
    /\ harness = [quality_flag |-> RENDER_FLAG, spawned |-> << >>, returned |-> NotReturned]
    /\ slugging = NotSlugged(NoneValue)
    /\ input_data = ""
    /\ os_environ = BaseEnviron
    /\ generated_code = Text(<<MANIM_CLASS_MARKER, "play">>)
    /\ current_code = generated_code
    /\ attempt = 0
    /\ success = TRUE
    /\ stderr = Text(<< >>)
    /\ live_slot = current_code
    /\ videos \in MediaTrees
    /\ partials = [t \in Tiers |-> videos[t].exists]
    /\ texts = (\E t \in Tiers : videos[t].exists)
    /\ error_logs = {}
    /\ now = MaxMtime
    /\ io_faults = 0
    /\ reported_video = "unset"
    /\ writes = << >>
    /\ purges = << >>
    /\ executions = << >>
    /\ snapshots = << >>
    /\ repairs = << >>
    /\ trace = << >>

DiscoverNext == ReportSuccess

DiscoverSpec == DiscoverInit /\ [][DiscoverNext]_vars

\* C26: _find_latest_video returns None exactly when no tier holds the
\* video, and otherwise a tier whose video exists and is at least as new as
\* the video of every tier.
C26_LatestVideo ==
    reported_video # "unset" =>
        /\ reported_video = "none" <=> (\A t \in Tiers : ~videos[t].exists)
        /\ reported_video # "none" =>
               /\ reported_video \in Tiers
               /\ videos[reported_video].exists
               /\ \A t \in Tiers :
                      videos[t].exists => videos[t].mtime <= videos[reported_video].mtime

C26_Witness ==
    /\ reported_video = "720p30"
    /\ videos["480p15"].exists
    /\ videos["480p15"].mtime < videos["720p30"].mtime

\* C27: an execution that succeeded is the last one; its attempt gets no
\* snapshot call and no repair call; the loop goes to the success branch and
\* ends as Succeeded whatever _find_latest_video returns; and no run ends as
\* Succeeded otherwise.
C27_SuccessEndsLoop ==
    /\ \A e \in DOMAIN executions :
         executions[e].ok =>
             /\ e = Len(executions)
             /\ \A j \in DOMAIN snapshots : snapshots[j].attempt # executions[e].attempt
             /\ \A r \in DOMAIN repairs : repairs[r].attempt # executions[e].attempt
             /\ pc \in {"success", "done"}
             /\ Done => outcome = "Succeeded"
    /\ outcome = "Succeeded" =>
           (executions # << >> /\ executions[Len(executions)].ok)

C27_Witness ==
    /\ Done
    /\ outcome = "Succeeded"
    /\ trace[Len(trace)].op = "viewer_failed"
    /\ Len(executions) = 2
    /\ Len(snapshots) = 1

\* C28: the stages run in the order designer, build_prompt, generator, loop,
\* each at most once; a designer that returns None ends the program with
\* nothing after it, and so does a build_prompt that returns None: no
\* generator call, no write of the live slot, no execution.
C28_PipelineOrder ==
    /\ \A i \in DOMAIN trace :
         /\ trace[i].op = "designer" <=> i = 1
         /\ trace[i].op = "build_prompt" <=> i = 2
         /\ trace[i].op = "generate" <=> i = 3
    /\ outcome = "DesignerFailed" => (Done /\ Len(trace) = 1)
    /\ outcome = "PromptFailed" => (Done /\ Len(trace) = 2)
    /\ outcome \in {"DesignerFailed", "PromptFailed"} =>
           /\ generated_code = NoneValue
           /\ live_slot = NoneValue
           /\ writes = << >>
           /\ executions = << >>

C28_Witness ==
    /\ outcome = "PromptFailed"
    /\ Done
    /\ trace = << Event("designer", 0), Event("build_prompt", 0) >>

\* The archive names this run can have used so far.
OwnPaths ==
    UNION { { SnapshotPath(slug, t, k, ext) :
                  t \in 0 .. now, k \in 0 .. attempt, ext \in {"py", "log"} } :
            slug \in {slugify_algorithm_name(algorithm_name)} }

\* C30: after a snapshot call whose directory exists, the code file is in
\* the archive exactly when its write did not fail and the log file exactly
\* when its write did not fail, whatever happened to the other one; the loop
\* goes on to the budget check; and the archive holds no file under a name
\* that is neither this run's nor was there before.
C30_HalvesIndependent ==
    /\ pc = "budget" =>
         \A s \in {snapshots[Len(snapshots)]}, slug \in {slugify_algorithm_name(algorithm_name)} :
             /\ outcome = "Running"
             /\ SnapshotFile(slug, now, attempt, "py", OrEmpty(s.code)) \in error_logs
                    <=> s.code_ok
             /\ SnapshotFile(slug, now, attempt, "log", s.stderr) \in error_logs
                    <=> s.log_ok
    /\ \/ error_logs \subseteq OtherRunSnapshot
       \/ \A own \in {OwnPaths} : \A f \in error_logs \ OtherRunSnapshot : f.path \in own

C30_Witness ==
    /\ pc = "budget"
    /\ ~snapshots[Len(snapshots)].code_ok
    /\ snapshots[Len(snapshots)].log_ok
    /\ attempt = 1
    /\ Cardinality(error_logs) = 3
    /\ error_logs \cap OtherRunSnapshot = {}

====
